---- MODULE Spec2Model ----
(***************************************************************************)
(* DeezerDeduplicator: the duplicate classification of one playlist        *)
(* (deduplicate_playlist) and the batch orchestration over several         *)
(* playlists (deduplicate_playlists), src/library/util.py and src/main.py. *)
(*                                                                         *)
(* Python values:                                                          *)
(*   - an optional value is a tuple of length 0 or 1: None is <<>>, a      *)
(*     present value v is <<v>> (so None differs from the empty list [],   *)
(*     which is Some(<<>>));                                               *)
(*   - a song dict is a record; a key the dict lacks is a field the record *)
(*     lacks, and song.get(k) is read through Has/Get below;               *)
(*   - a playlist [name, id] is the pair <<name, id>>.                     *)
(***************************************************************************)
EXTENDS Integers, Sequences, FiniteSets, TLC

VARIABLES
    playlists,       \* argument: the list of [name, id] playlists
    deduplicate_by,  \* argument: 1 (ISRC), 2 (name and artist), 3 (both)
    only_show,       \* argument: dry run
    pc,              \* position of deduplicate_playlists
    job,             \* per playlist: the deduplicate_playlist invocation
    ret              \* what deduplicate_playlists returned

vars == <<playlists, deduplicate_by, only_show, pc, job, ret>>

----------------------------------------------------------------------------
(* Bounds *)

MaxJobs == 2        \* playlists per batch
MaxLen == 3         \* songs of a fetched playlist (single-playlist runs)
MaxBatchLen == 2    \* songs of a fetched playlist (batch runs)

----------------------------------------------------------------------------
(* Python values *)

None == <<>>
Some(v) == <<v>>

NAME == 1   \* playlist[NAME], 0 in the source's 0-based indexing
ID == 2     \* playlist[ID], 1 in the source's 0-based indexing

\* a test of the key's presence alone, as `key in song`
HasKey(song, key) == key \in DOMAIN song

\* dict.get(key) is truthy: the key is present and its value is not empty
Has(song, key) == key \in DOMAIN song /\ song[key] # ""

\* dict.get(key, default)
Get(song, key, default) == IF key \in DOMAIN song THEN song[key] ELSE default

\* a filter on the tuple's first entry, the duplicates, instead of the tuple
TruthyDuplicates(tuple) == tuple[1] # <<>>

\* bool(x) of a tuple: a tuple is truthy iff it is not empty
Truthy(tuple) == Len(tuple) # 0

Lists(S, n) == UNION {[1..k -> S] : k \in 0..n}

----------------------------------------------------------------------------
(* The songs the service can return.  A song id names one catalogue entry; *)
(* the same recording (ISRC) can be in the catalogue under several ids.    *)

Catalogue == {
    [SNG_ID |-> 1,  SNG_TITLE |-> "A",  ISRC |-> "X1", ART_ID |-> "7"],
    [SNG_ID |-> 2,  SNG_TITLE |-> "A",  ISRC |-> "X1", ART_ID |-> "7"],
    [SNG_ID |-> 3,  SNG_TITLE |-> "A",  ISRC |-> "X2", ART_ID |-> "7"],
    [SNG_ID |-> 4,  SNG_TITLE |-> "B",  ISRC |-> "X1", ART_ID |-> "7"],
    [SNG_ID |-> 5,  SNG_TITLE |-> "B",  ISRC |-> "X2", ART_ID |-> "7"],
    [SNG_ID |-> 6,  SNG_TITLE |-> "A",  VERSION |-> "B", ISRC |-> "X2", ART_ID |-> "8"],
    [SNG_ID |-> 7,  SNG_TITLE |-> "AB", VERSION |-> "",  ISRC |-> "X3", ART_ID |-> "8"],
    [SNG_ID |-> 8,  SNG_TITLE |-> "A",  ISRC |-> "X3", ART_ID |-> "8"],
    [SNG_ID |-> 9,  SNG_TITLE |-> "A",  ART_ID |-> "7"],
    [SNG_ID |-> 10, SNG_TITLE |-> "A",  ISRC |-> "",   ART_ID |-> "7"],
    [SNG_ID |-> 11, SNG_TITLE |-> "B",  ISRC |-> "X1"],
    [SNG_ID |-> 12, SNG_TITLE |-> "B"],
    [SNG_ID |-> 13, SNG_TITLE |-> "B",  ISRC |-> "",   ART_ID |-> ""] }

\* The songs of the batch runs: same recording and title, and same recording
\* under another title.
BatchCatalogue == {s \in Catalogue : s.SNG_ID \in {1, 4}}

\* What get_songs_in_playlist returns: None, or resp["results"]["data"]
Responses(S, n) == {None} \cup {Some(l) : l \in Lists(S, n)}

BatchResponses == Responses(BatchCatalogue, MaxBatchLen)
SingleResponses == Responses(Catalogue, MaxLen)

----------------------------------------------------------------------------
(* deduplicate_playlist: the classification loop *)

DeduplicateByIsrc(by) == by \in {1, 3}
DeduplicateByName(by) == by \in {2, 3}

SongTitle(song) == song.SNG_TITLE \o Get(song, "VERSION", "")

\* a key of the title alone, whoever the artist is
NameKeyTitleOnly(song) == <<SongTitle(song), "">>

\* key = (song_title, song["ART_ID"])
NameKey(song) == <<SongTitle(song), song.ART_ID>>

\* one set of seen ISRCs for all invocations, as a module-level set would be
SharedIsrcs(j) == UNION {job[k].isrcs : k \in DOMAIN job}

\* isrcs = set(): the set of seen ISRCs a new invocation starts with
NewIsrcs(j) == {}

\* names = {}: the name mapping a new invocation starts with
NewNames(j) == << >>

\* duplicates = []
NewDuplicates(j) == << >>

Locals(j) ==
    [isrcs |-> NewIsrcs(j), names |-> NewNames(j), duplicates |-> NewDuplicates(j),
     is_song_duplicate |-> FALSE, log |-> << >>]

\* the ISRC check without `isrcs.add(song["ISRC"])`
IsrcCheckNoAdd(st, song, by) ==
    IF DeduplicateByIsrc(by) /\ Has(song, "ISRC") /\ song.ISRC \in st.isrcs
    THEN [st EXCEPT !.duplicates = Append(@, song),
                    !.is_song_duplicate = TRUE,
                    !.log = Append(@, "isrc")]
    ELSE st

\* the ISRC check without `is_song_duplicate = True`
IsrcCheckNoFlag(st, song, by) ==
    IF DeduplicateByIsrc(by) /\ Has(song, "ISRC")
    THEN IF song.ISRC \in st.isrcs
         THEN [st EXCEPT !.duplicates = Append(@, song),
                         !.log = Append(@, "isrc")]
         ELSE [st EXCEPT !.isrcs = @ \cup {song.ISRC}]
    ELSE st

\* if deduplicate_by_isrc and song.get("ISRC"): ...
IsrcCheck(st, song, by) ==
    IF DeduplicateByIsrc(by) /\ Has(song, "ISRC")
    THEN IF song.ISRC \in st.isrcs
         THEN [st EXCEPT !.duplicates = Append(@, song),
                         !.is_song_duplicate = TRUE,
                         !.log = Append(@, "isrc")]
         ELSE [st EXCEPT !.isrcs = @ \cup {song.ISRC}]
    ELSE st

\* the name check without `names[key] = song`
NameCheckNoRegister(st, song, by) ==
    IF DeduplicateByName(by) /\ ~st.is_song_duplicate /\ Has(song, "ART_ID")
       /\ NameKey(song) \in DOMAIN st.names
    THEN [st EXCEPT !.duplicates = Append(@, song),
                    !.log = Append(@, "name")]
    ELSE st

\* the name check without `not is_song_duplicate`
NameCheckNoShortCircuit(st, song, by) ==
    IF DeduplicateByName(by) /\ Has(song, "ART_ID")
    THEN LET key == NameKey(song) IN
         IF key \in DOMAIN st.names
         THEN [st EXCEPT !.duplicates = Append(@, song),
                         !.log = Append(@, "name")]
         ELSE [st EXCEPT !.names =
                  [k \in DOMAIN @ \cup {key} |-> IF k = key THEN song ELSE @[k]]]
    ELSE st

\* if deduplicate_by_name and not is_song_duplicate and song.get("ART_ID"): ...
NameCheck(st, song, by) ==
    IF DeduplicateByName(by) /\ ~st.is_song_duplicate /\ Has(song, "ART_ID")
    THEN LET key == NameKey(song) IN
         IF key \in DOMAIN st.names
         THEN [st EXCEPT !.duplicates = Append(@, song),
                         !.log = Append(@, "name")]
         ELSE [st EXCEPT !.names =
                  [k \in DOMAIN @ \cup {key} |-> IF k = key THEN song ELSE @[k]]]
    ELSE st

\* one iteration of `for song in songs`
LoopBody(st, song, by) ==
    NameCheck(IsrcCheck([st EXCEPT !.is_song_duplicate = FALSE], song, by), song, by)

RECURSIVE Loop(_, _, _)
Loop(st, songs, by) ==
    IF songs = << >> THEN st
    ELSE Loop(LoopBody(st, Head(songs), by), Tail(songs), by)

\* the ids as a set written back as a list: one entry per distinct id, sorted
RECURSIVE SortedIds(_)
SortedIds(ids) ==
    IF ids = {} THEN << >>
    ELSE LET m == CHOOSE x \in ids : \A y \in ids : x <= y
         IN  <<m>> \o SortedIds(ids \ {m})

SongIdsOfSet(duplicates) == SortedIds({duplicates[i].SNG_ID : i \in 1..Len(duplicates)})

\* [song["SNG_ID"] for song in duplicates]
SongIds(duplicates) == [i \in 1..Len(duplicates) |-> duplicates[i].SNG_ID]

\* if not songs
NotSongs(resp) == resp = None \/ resp[1] = << >>

\* the tuples deduplicate_playlist returns
ReturnFailed(playlist) == <<None, playlist[NAME], playlist[ID]>>
ReturnDuplicates(duplicates, playlist) == <<Some(duplicates), playlist[NAME], playlist[ID]>>
ReturnNotRemoved(duplicates, playlist) == <<None, playlist[NAME], playlist[ID]>>
ReturnNoDuplicates(playlist) == <<None, playlist[NAME], playlist[ID]>>

----------------------------------------------------------------------------
(* State *)

Jobs == 1..Len(playlists)

Returned == {"ret81", "ret108", "ret113", "ret116", "ret119"}
Finished == Returned \cup {"raised", "cancelled"}

NewJob ==
    [pc |-> "created", songs |-> None, isrcs |-> {}, names |-> << >>,
     duplicates |-> << >>, log |-> << >>, calls |-> << >>, result |-> None]

Playlist(i) == <<"Mix", i>>

InitArgs(n) ==
    /\ playlists \in {[i \in 1..k |-> Playlist(i)] : k \in n}
    /\ deduplicate_by \in {1, 2, 3}
    /\ only_show \in BOOLEAN
    /\ pc = "call"
    /\ job = [j \in Jobs |-> NewJob]
    /\ ret = None

Init == InitArgs(0..MaxJobs)

InitSingle == InitArgs({1})

----------------------------------------------------------------------------
(* deduplicate_playlist, from one suspension point to the next *)

\* up to `await _api.get_songs_in_playlist(playlist[ID])`
Start(j) ==
    [job[j] EXCEPT !.pc = "fetch",
                   !.calls = Append(@, [op |-> "get_songs_in_playlist",
                                        playlist_id |-> playlists[j][ID]])]

\* the conclusion without the `if only_show: return` of the dry run
ConcludeAlwaysRemove(j, scanned) ==
    IF scanned.duplicates # << >>
    THEN [scanned EXCEPT !.pc = "remove",
              !.calls = Append(@, [op |-> "remove_songs_from_playlist",
                                   playlist_id |-> playlists[j][ID],
                                   song_ids |-> SongIds(scanned.duplicates)])]
    ELSE [scanned EXCEPT !.pc = "ret119",
              !.result = Some(ReturnNoDuplicates(playlists[j]))]

\* the conclusion with the removal requested before `if duplicates:` is tested
ConcludeRemoveFirst(j, scanned) ==
    IF only_show
    THEN IF scanned.duplicates # << >>
         THEN [scanned EXCEPT !.pc = "ret108",
                   !.result = Some(ReturnDuplicates(scanned.duplicates, playlists[j]))]
         ELSE [scanned EXCEPT !.pc = "ret119",
                   !.result = Some(ReturnNoDuplicates(playlists[j]))]
    ELSE [scanned EXCEPT !.pc = "remove",
              !.calls = Append(@, [op |-> "remove_songs_from_playlist",
                                   playlist_id |-> playlists[j][ID],
                                   song_ids |-> SongIds(scanned.duplicates)])]

\* `if duplicates:` to the return or to
\* `await _api.remove_songs_from_playlist(...)`
Conclude(j, scanned) ==
    IF scanned.duplicates # << >>
    THEN IF only_show
         THEN [scanned EXCEPT !.pc = "ret108",
                   !.result = Some(ReturnDuplicates(scanned.duplicates, playlists[j]))]
         ELSE [scanned EXCEPT !.pc = "remove",
                   !.calls = Append(@, [op |-> "remove_songs_from_playlist",
                                        playlist_id |-> playlists[j][ID],
                                        song_ids |-> SongIds(scanned.duplicates)])]
    ELSE [scanned EXCEPT !.pc = "ret119",
              !.result = Some(ReturnNoDuplicates(playlists[j]))]

\* from the fetch's answer to the return or to the removal call
AfterFetch(j, resp) ==
    IF NotSongs(resp)
    THEN [job[j] EXCEPT !.pc = "ret81", !.songs = resp,
                        !.result = Some(ReturnFailed(playlists[j]))]
    ELSE LET st == Loop(Locals(j), resp[1], deduplicate_by)
         IN  Conclude(j, [job[j] EXCEPT !.songs = resp, !.isrcs = st.isrcs,
                                        !.names = st.names, !.log = st.log,
                                        !.duplicates = st.duplicates])

\* from the removal's answer to the return
AfterRemove(j, did_remove) ==
    IF did_remove
    THEN [job[j] EXCEPT !.pc = "ret113",
                        !.result = Some(ReturnDuplicates(job[j].duplicates, playlists[j]))]
    ELSE [job[j] EXCEPT !.pc = "ret116",
                        !.result = Some(ReturnNotRemoved(job[j].duplicates, playlists[j]))]

----------------------------------------------------------------------------
(* deduplicate_playlists *)

\* `await deduplicate_playlist(playlists[0], ...)` resumes with the
\* coroutine: its return is the return of the list, its exception propagates
Awaited(j, next) ==
    IF pc = "await"
    THEN IF next.pc \in Returned
         THEN pc' = "returned" /\ ret' = Some(<<next.result[1]>>)
         ELSE IF next.pc = "raised"
              THEN pc' = "raised" /\ ret' = ret
              ELSE UNCHANGED <<pc, ret>>
    ELSE UNCHANGED <<pc, ret>>

Step(j, next) ==
    /\ job' = [job EXCEPT ![j] = next]
    /\ Awaited(j, next)
    /\ UNCHANGED <<playlists, deduplicate_by, only_show>>

\* if len(playlists) == 0: return None
ReturnNone ==
    /\ pc = "call"
    /\ Len(playlists) = 0
    /\ pc' = "returned"
    /\ ret' = None
    /\ UNCHANGED <<playlists, deduplicate_by, only_show, job>>

\* if len(playlists) == 1: return [await deduplicate_playlist(playlists[0], ...)]
RunSingle ==
    /\ pc = "call"
    /\ Len(playlists) = 1
    /\ pc' = "await"
    /\ job' = [job EXCEPT ![1] = Start(1)]
    /\ UNCHANGED <<playlists, deduplicate_by, only_show, ret>>

\* tasks = [tg.create_task(deduplicate_playlist(playlist, ...)) for playlist in playlists]
CreateTasks ==
    /\ pc = "call"
    /\ Len(playlists) >= 2
    /\ pc' = "group"
    /\ UNCHANGED <<playlists, deduplicate_by, only_show, job, ret>>

\* a created task runs to its first suspension point
TaskStart(j) ==
    /\ pc = "group"
    /\ job[j].pc = "created"
    /\ Step(j, Start(j))

\* get_songs_in_playlist answers with one of `responses`
FetchReturn(j, responses) ==
    /\ job[j].pc = "fetch"
    /\ \E resp \in responses : Step(j, AfterFetch(j, resp))

\* get_songs_in_playlist raises (the connection fails, the answer is not
\* JSON or lacks "results"): nothing in deduplicate_playlist catches it
FetchRaise(j) ==
    /\ job[j].pc = "fetch"
    /\ Step(j, [job[j] EXCEPT !.pc = "raised"])

RemoveReturn(j) ==
    /\ job[j].pc = "remove"
    /\ \E did_remove \in BOOLEAN : Step(j, AfterRemove(j, did_remove))

\* remove_songs_from_playlist raises
RemoveRaise(j) ==
    /\ job[j].pc = "remove"
    /\ Step(j, [job[j] EXCEPT !.pc = "raised"])

\* a group that also aborts when a task returns its failed tuple
AbortingOnFailure ==
    \E k \in Jobs : job[k].pc = "raised"
                       \/ (job[k].pc \in Returned /\ job[k].result[1][1] = <<>>)

\* asyncio.TaskGroup: once a task has raised, the group is aborting
Aborting == \E k \in Jobs : job[k].pc = "raised"

\* asyncio.TaskGroup: an aborting group cancels its unfinished tasks
Cancel(j) ==
    /\ pc = "group"
    /\ Aborting
    /\ job[j].pc \notin Finished
    /\ Step(j, [job[j] EXCEPT !.pc = "cancelled"])

\* for task in tasks: result = task.result(); if result: append
RECURSIVE Collect(_)
Collect(results) ==
    IF results = << >> THEN << >>
    ELSE IF Truthy(Head(results))
         THEN <<Head(results)>> \o Collect(Tail(results))
         ELSE Collect(Tail(results))

\* the `async with` block is left when every task has finished
GroupExit ==
    /\ pc = "group"
    /\ \A j \in Jobs : job[j].pc \in Returned
    /\ pc' = "returned"
    /\ ret' = Some(Collect([j \in Jobs |-> job[j].result[1]]))
    /\ UNCHANGED <<playlists, deduplicate_by, only_show, job>>

\* the `async with` block raises the tasks' exceptions as a group
GroupRaise ==
    /\ pc = "group"
    /\ \A j \in Jobs : job[j].pc \in Finished
    /\ Aborting
    /\ pc' = "raised"
    /\ UNCHANGED <<playlists, deduplicate_by, only_show, job, ret>>

Next ==
    \/ ReturnNone
    \/ RunSingle
    \/ CreateTasks
    \/ \E j \in Jobs : TaskStart(j)
    \/ \E j \in Jobs : FetchReturn(j, BatchResponses)
    \/ \E j \in Jobs : FetchRaise(j)
    \/ \E j \in Jobs : RemoveReturn(j)
    \/ \E j \in Jobs : RemoveRaise(j)
    \/ \E j \in Jobs : Cancel(j)
    \/ GroupExit
    \/ GroupRaise

Spec == Init /\ [][Next]_vars

\* one playlist, any list of catalogue songs
NextSingle ==
    \/ RunSingle
    \/ FetchReturn(1, SingleResponses)
    \/ FetchRaise(1)
    \/ RemoveReturn(1)
    \/ RemoveRaise(1)

SpecSingle == InitSingle /\ [][NextSingle]_vars

----------------------------------------------------------------------------
(* Claims *)

\* What one invocation returns when it runs alone: the classification of the
\* fetched list from empty locals, then the return its position names.
Fresh ==
    [isrcs |-> {}, names |-> << >>, duplicates |-> << >>,
     is_song_duplicate |-> FALSE, log |-> << >>]

DuplicatesOf(songs, by) == Loop(Fresh, songs, by).duplicates

AloneResult(j) ==
    LET p == playlists[j]
        d == DuplicatesOf(job[j].songs[1], deduplicate_by)
    IN  IF NotSongs(job[j].songs) THEN <<None, p[NAME], p[ID]>>
        ELSE IF d = << >> THEN <<None, p[NAME], p[ID]>>
        ELSE IF only_show \/ job[j].pc = "ret113" THEN <<Some(d), p[NAME], p[ID]>>
        ELSE <<None, p[NAME], p[ID]>>

\* C1: deduplicate_playlists with N >= 1 playlists returns a list of exactly N
\* results, the i-th being the i-th job's result, whatever the jobs returned;
\* with N = 0 it returns None and runs no job.
C1_Cardinality ==
    /\ (pc = "returned" /\ Len(playlists) >= 1) =>
          /\ ret # None
          /\ Len(ret[1]) = Len(playlists)
          /\ \A j \in Jobs : job[j].pc \in Returned /\ ret[1][j] = job[j].result[1]
    /\ Len(playlists) = 0 =>
          /\ pc \in {"call", "returned"}
          /\ pc = "returned" => ret = None

C1_Witness ==
    /\ pc = "returned"
    /\ Len(playlists) >= 2
    /\ \E j, k \in Jobs : job[j].pc = "ret81" /\ job[k].pc = "ret119"
    /\ Len(ret[1]) = Len(playlists)

\* C2: in a multi-job run a job that returns a failed fetch or a failed removal
\* never cancels or blocks a sibling and never changes its result: no job is
\* cancelled unless some job raised, every unfinished job can take its next step,
\* every returned job holds the result of its run alone on the list it fetched,
\* and the batch returns only when every job has returned.
C2_SiblingsIsolated ==
    /\ (\A k \in Jobs : job[k].pc # "raised") => \A j \in Jobs : job[j].pc # "cancelled"
    /\ \A j \in Jobs :
          /\ job[j].pc \in Returned => job[j].result = Some(AloneResult(j))
          /\ (pc = "group" /\ job[j].pc = "created") => ENABLED TaskStart(j)
          /\ job[j].pc = "fetch" => ENABLED FetchReturn(j, BatchResponses)
          /\ job[j].pc = "remove" => ENABLED RemoveReturn(j)
    /\ pc = "returned" => \A j \in Jobs : job[j].pc \in Returned

C2_Witness ==
    /\ pc = "returned"
    /\ \E j, k \in Jobs :
          /\ job[j].pc \in {"ret81", "ret116"}
          /\ job[k].pc \in {"ret108", "ret113"}
          /\ job[k].result = Some(AloneResult(k))

\* C3: an error raised by the fetch call, the remove call or the classification
\* of one job becomes that job's failed result: no job ends raised, no sibling
\* is cancelled and deduplicate_playlists does not raise.
C3_ErrorsContained ==
    /\ pc # "raised"
    /\ \A j \in Jobs : job[j].pc \notin {"raised", "cancelled"}

\* The outcome a return of deduplicate_playlist stands for, and the values each
\* outcome is returned as for playlist p with duplicates d.
OutcomeAt(at) ==
    CASE at = "ret81" -> "failed"
      [] at = "ret108" -> "identified"
      [] at = "ret113" -> "removed"
      [] at = "ret116" -> "failed"
      [] at = "ret119" -> "no-duplicates"

ValuesOf(outcome, p, d) ==
    CASE outcome = "failed" -> {ReturnFailed(p), ReturnNotRemoved(d, p)}
      [] outcome = "identified" -> {ReturnDuplicates(d, p)}
      [] outcome = "removed" -> {ReturnDuplicates(d, p)}
      [] outcome = "no-duplicates" -> {ReturnNoDuplicates(p)}

\* C4: the result of a job tells which of the four outcomes occurred: it is not
\* a value another outcome is returned as; a failed or empty fetch in particular
\* differs from the result of a playlist without duplicates.
C4_OutcomeIdentified ==
    \A j \in Jobs : job[j].pc \in Returned =>
        \A o \in {"failed", "identified", "removed", "no-duplicates"} \ {OutcomeAt(job[j].pc)} :
            job[j].result[1] \notin ValuesOf(o, playlists[j], job[j].duplicates)

\* C5: after a failed removal (dry run off, duplicates found) the result carries
\* the identified duplicates and is not the no-duplicates result.
C5_RemovalFailedCarriesDuplicates ==
    \A j \in Jobs : job[j].pc = "ret116" =>
        /\ job[j].result[1][1] = Some(job[j].duplicates)
        /\ job[j].result[1] # ReturnNoDuplicates(playlists[j])

----------------------------------------------------------------------------
(* The classification by position in the fetched list *)

\* job j fetched a non-empty list and classified it
Classified(j) == job[j].songs # None /\ job[j].songs[1] # << >>

Fetched(j) == job[j].songs[1]

\* what each iteration of the loop did with its song: appended it to
\* duplicates or not, and the check that appended it
RECURSIVE MarksFrom(_, _, _)
MarksFrom(st, songs, by) ==
    IF songs = << >> THEN << >>
    ELSE LET next == LoopBody(st, Head(songs), by)
         IN  <<[duplicate |-> next.duplicates = Append(st.duplicates, Head(songs)),
                kept |-> next.duplicates = st.duplicates,
                axis |-> IF next.log = st.log THEN "none" ELSE next.log[Len(next.log)]]>>
             \o MarksFrom(next, Tail(songs), by)

Marks(j) == MarksFrom(Locals(j), Fetched(j), deduplicate_by)

\* the songs at the positions marked duplicate, in order
RECURSIVE Marked(_, _)
Marked(marks, songs) ==
    IF songs = << >> THEN << >>
    ELSE IF Head(marks).duplicate THEN <<Head(songs)>> \o Marked(Tail(marks), Tail(songs))
    ELSE Marked(Tail(marks), Tail(songs))

\* the keys of a song: a field that is present and not empty
Carries(song, key) == key \in DOMAIN song /\ song[key] # ""
IsrcActive == deduplicate_by \in {1, 3}
NameActive == deduplicate_by \in {2, 3}
SameIsrc(a, b) == Carries(a, "ISRC") /\ Carries(b, "ISRC") /\ a.ISRC = b.ISRC
SameName(a, b) ==
    /\ Carries(a, "ART_ID") /\ Carries(b, "ART_ID") /\ a.ART_ID = b.ART_ID
    /\ a.SNG_TITLE \o (IF "VERSION" \in DOMAIN a THEN a.VERSION ELSE "")
         = b.SNG_TITLE \o (IF "VERSION" \in DOMAIN b THEN b.VERSION ELSE "")

Without(songs, k) == SubSeq(songs, 1, k - 1) \o SubSeq(songs, k + 1, Len(songs))

\* C6 as stated: on each active axis the first song carrying a key value is
\* kept and every later song carrying an equal value is a duplicate.
C6_FirstKeptLaterDuplicate ==
    \A j \in Jobs : Classified(j) =>
        LET songs == Fetched(j)
            m == Marks(j)
        IN  \A k \in 1..Len(songs) :
                /\ (IsrcActive /\ Carries(songs[k], "ISRC")) =>
                      IF \E i \in 1..(k - 1) : SameIsrc(songs[i], songs[k])
                      THEN m[k].duplicate ELSE m[k].kept
                /\ (NameActive /\ Carries(songs[k], "ART_ID")) =>
                      IF \E i \in 1..(k - 1) : SameName(songs[i], songs[k])
                      THEN m[k].duplicate ELSE m[k].kept

\* C6 (amended): a song is classified duplicate only if an earlier song carries
\* an equal key on an active axis, and every song carrying a key equal to one
\* carried by an earlier kept song is a duplicate; with one active axis
\* (policy 1 or 2) the first carrier of a key value is kept and every later
\* carrier is a duplicate.
C6_FirstOccurrence ==
    \A j \in Jobs : Classified(j) =>
        LET songs == Fetched(j)
            m == Marks(j)
        IN  /\ job[j].duplicates = Marked(m, songs)
            /\ \A k \in 1..Len(songs) :
                /\ m[k].duplicate # m[k].kept
                /\ m[k].duplicate =>
                      \E i \in 1..(k - 1) :
                          \/ IsrcActive /\ SameIsrc(songs[i], songs[k])
                          \/ NameActive /\ SameName(songs[i], songs[k])
                /\ (IsrcActive /\ \E i \in 1..(k - 1) :
                                      m[i].kept /\ SameIsrc(songs[i], songs[k]))
                      => m[k].duplicate
                /\ (NameActive /\ \E i \in 1..(k - 1) :
                                      m[i].kept /\ SameName(songs[i], songs[k]))
                      => m[k].duplicate
                /\ deduplicate_by = 1 =>
                      (m[k].duplicate <=> \E i \in 1..(k - 1) : SameIsrc(songs[i], songs[k]))
                /\ deduplicate_by = 2 =>
                      (m[k].duplicate <=> \E i \in 1..(k - 1) : SameName(songs[i], songs[k]))

\* policy 3: the first carrier of a name key is an ISRC duplicate and a later
\* carrier of that name key is kept
C6_Witness ==
    /\ deduplicate_by = 3
    /\ Classified(1)
    /\ job[1].pc \in Returned
    /\ LET songs == Fetched(1)
           m == Marks(1)
       IN  \E k, n \in 1..Len(songs) :
              /\ k < n
              /\ m[k].duplicate
              /\ m[n].kept
              /\ SameName(songs[k], songs[n])
              /\ \A i \in 1..(k - 1) : ~SameName(songs[i], songs[k])

\* no key on any active axis
Keyless(song) ==
    /\ IsrcActive => ~Carries(song, "ISRC")
    /\ NameActive => ~Carries(song, "ART_ID")

\* C7: a missing field disables an axis for that song only.  A song without
\* ISRC is never an ISRC duplicate and never the song an ISRC duplicate matches,
\* nor is its empty value registered; likewise a song without artist id on the
\* name axis.  A song with no key on an active axis is kept, and the list
\* without it has the same duplicates.  Under policy 3 a song with an ISRC seen
\* before and no artist id is a duplicate.
C7_MissingFieldDisablesAxis ==
    \A j \in Jobs : Classified(j) =>
        LET songs == Fetched(j)
            m == Marks(j)
        IN  /\ "" \notin job[j].isrcs
            /\ \A e \in job[j].isrcs : \E i \in 1..Len(songs) :
                  Carries(songs[i], "ISRC") /\ songs[i].ISRC = e
            /\ \A key \in DOMAIN job[j].names :
                  /\ key[2] # ""
                  /\ Carries(job[j].names[key], "ART_ID")
            /\ \A k \in 1..Len(songs) :
                /\ (m[k].duplicate /\ m[k].axis = "isrc") =>
                      \E i \in 1..(k - 1) : SameIsrc(songs[i], songs[k])
                /\ (m[k].duplicate /\ m[k].axis = "name") =>
                      \E i \in 1..(k - 1) : SameName(songs[i], songs[k])
                /\ Keyless(songs[k]) =>
                      /\ m[k].kept
                      /\ Loop(Locals(j), Without(songs, k), deduplicate_by).duplicates
                            = job[j].duplicates
                /\ (deduplicate_by = 3 /\ ~Carries(songs[k], "ART_ID")
                      /\ \E i \in 1..(k - 1) : SameIsrc(songs[i], songs[k]))
                      => m[k].duplicate /\ m[k].axis = "isrc"

\* policy 3: a song without any key is kept between two songs of one ISRC, and
\* the later of them, which has no artist id, is an ISRC duplicate
C7_Witness ==
    /\ deduplicate_by = 3
    /\ Classified(1)
    /\ job[1].pc \in Returned
    /\ LET songs == Fetched(1)
           m == Marks(1)
       IN  \E i, k, n \in 1..Len(songs) :
              /\ i < k /\ k < n
              /\ ~Carries(songs[k], "ISRC") /\ ~Carries(songs[k], "ART_ID")
              /\ m[k].kept
              /\ ~Carries(songs[n], "ART_ID")
              /\ SameIsrc(songs[i], songs[n])
              /\ m[n].duplicate

RemoveCalls(j) ==
    SelectSeq(job[j].calls, LAMBDA c : c.op = "remove_songs_from_playlist")

\* C8: in a dry run no removal is ever requested for any playlist, and a job
\* that found duplicates returns the whole duplicate sequence.
C8_DryRunNeverRemoves ==
    only_show =>
        \A j \in Jobs :
            /\ RemoveCalls(j) = << >>
            /\ job[j].pc \notin {"remove", "ret113", "ret116"}
            /\ Classified(j) =>
                  LET d == Marked(Marks(j), Fetched(j)) IN
                  /\ job[j].duplicates = d
                  /\ d # << >> =>
                        job[j].result = Some(<<Some(d), playlists[j][NAME], playlists[j][ID]>>)

C8_Witness ==
    /\ only_show
    /\ pc = "returned"
    /\ Len(playlists) >= 2
    /\ \A j \in Jobs : job[j].pc = "ret108" /\ RemoveCalls(j) = << >>

\* C9: with the dry run off and duplicates found, the job requests one removal,
\* for its own playlist id, of exactly the ids of the songs classified
\* duplicate, in the order met; when it succeeds the result carries that
\* duplicate sequence.
C9_RemovesExactlyDuplicates ==
    \A j \in Jobs : (Classified(j) /\ ~only_show /\ job[j].duplicates # << >>) =>
        LET d == Marked(Marks(j), Fetched(j))
            removals == RemoveCalls(j)
        IN  /\ Len(removals) = 1
            /\ removals[1].playlist_id = playlists[j][ID]
            /\ Len(removals[1].song_ids) = Len(d)
            /\ \A i \in 1..Len(d) : removals[1].song_ids[i] = d[i].SNG_ID
            /\ job[j].pc = "ret113" =>
                  job[j].result = Some(<<Some(d), playlists[j][NAME], playlists[j][ID]>>)

\* two duplicates with ids out of numeric order were removed
C9_Witness ==
    /\ ~only_show
    /\ job[1].pc = "ret113"
    /\ Len(job[1].duplicates) = 2
    /\ job[1].duplicates[1].SNG_ID > job[1].duplicates[2].SNG_ID
    /\ Len(RemoveCalls(1)) = 1

\* C10: the duplicates depend only on the fetched list and the policy: two jobs
\* of one batch that fetched equal lists hold equal duplicate sequences, under
\* every interleaving, and these are the duplicates of the list run alone.
C10_Deterministic ==
    \A j \in Jobs : Classified(j) =>
        /\ job[j].duplicates = DuplicatesOf(Fetched(j), deduplicate_by)
        /\ \A k \in Jobs : (Classified(k) /\ Fetched(k) = Fetched(j)) =>
              job[k].duplicates = job[j].duplicates

C10_Witness ==
    \E j, k \in Jobs :
        /\ j # k
        /\ Classified(j) /\ Classified(k)
        /\ Fetched(j) = Fetched(k)
        /\ job[j].duplicates # << >>
        /\ job[j].duplicates = job[k].duplicates

----------------------------------------------------------------------------
(* The policy *)

Song(id) == CHOOSE s \in Catalogue : s.SNG_ID = id

EarlierIsrc(songs, k) == \E i \in 1..(k - 1) : SameIsrc(songs[i], songs[k])
EarlierName(songs, k) == \E i \in 1..(k - 1) : SameName(songs[i], songs[k])

----------------------------------------------------------------------------
(* The calls of one invocation *)

FetchCall(j) == [op |-> "get_songs_in_playlist", playlist_id |-> playlists[j][ID]]

\* C12: an invocation that has started issues exactly one fetch call, first, and
\* at most one remove call, second: the removal is requested only after the
\* fetch answered with a non-empty list whose classification found duplicates;
\* while the fetch is pending, after a failed or empty fetch and when no
\* duplicate was found, the fetch is the only call.
C12_OneFetchAtMostOneRemove ==
    \A j \in Jobs :
        LET calls == job[j].calls IN
        /\ Len(calls) <= 2
        /\ job[j].pc = "created" => calls = << >>
        /\ job[j].pc \notin {"created", "cancelled"} => Len(calls) >= 1
        /\ Len(calls) >= 1 => calls[1] = FetchCall(j)
        /\ Len(calls) = 2 =>
              /\ calls[2].op = "remove_songs_from_playlist"
              /\ calls[2].playlist_id = playlists[j][ID]
              /\ Classified(j)
              /\ job[j].duplicates # << >>
              /\ job[j].pc # "fetch"
        /\ job[j].pc \in {"fetch", "ret81", "ret119"} => Len(calls) = 1
        /\ (job[j].pc \in Returned /\ job[j].duplicates = << >>) => Len(calls) = 1

\* a batch returned in which one job fetched and removed and another only fetched
C12_Witness ==
    /\ pc = "returned"
    /\ \E j, k \in Jobs :
          /\ job[j].pc = "ret113" /\ Len(job[j].calls) = 2
          /\ job[k].pc \in {"ret81", "ret119"} /\ Len(job[k].calls) = 1

----------------------------------------------------------------------------
(* The locals after each song *)

RECURSIVE LocalsFrom(_, _, _)
LocalsFrom(st, songs, by) ==
    IF songs = << >> THEN << >>
    ELSE LET next == LoopBody(st, Head(songs), by)
         IN  <<next>> \o LocalsFrom(next, Tail(songs), by)

\* LocalsAfter(j)[k]: isrcs, names and duplicates once the k-th song is processed
LocalsAfter(j) == LocalsFrom(Locals(j), Fetched(j), deduplicate_by)

\* after the k-th song every name key of the mapping is held by a kept song
NamesOfKept(songs, m, after, k) ==
    \A key \in DOMAIN after[k].names :
        \E i \in 1..k :
            /\ m[i].kept
            /\ Carries(songs[i], "ART_ID")
            /\ key = NameKey(songs[i])
            /\ after[k].names[key] = songs[i]

\* after the k-th song every seen ISRC is that of a kept song
IsrcsOfKept(songs, m, after, k) ==
    \A e \in after[k].isrcs :
        \E i \in 1..k : m[i].kept /\ Carries(songs[i], "ISRC") /\ songs[i].ISRC = e

\* C13: only a song that is not marked duplicate registers keys: after each
\* song, every seen ISRC and every name key of the mapping belongs to a kept
\* song, also under policy 3 for a song whose ISRC is new and whose name key was
\* seen.
C13_OnlyKeptRegister ==
    \A j \in Jobs : Classified(j) =>
        LET songs == Fetched(j)
            m == Marks(j)
            after == LocalsAfter(j)
        IN  \A k \in 1..Len(songs) :
                /\ IsrcsOfKept(songs, m, after, k)
                /\ NamesOfKept(songs, m, after, k)

----------------------------------------------------------------------------
(* The order of the two checks *)

\* the name mapping before the k-th song is processed
NamesBefore(j, after, k) == IF k = 1 THEN Locals(j).names ELSE after[k - 1].names

\* C14: under policy 3 the ISRC check comes first and short-circuits the name
\* check.  A song whose ISRC an earlier song carries is marked duplicate on the
\* ISRC axis, whatever its name key, and leaves the name mapping as it was; a
\* later song that shares no ISRC with an earlier song, and a name key only
\* with earlier songs that were marked on the ISRC axis, is kept.
C14_IsrcShortCircuitsName ==
    \A j \in Jobs : (Classified(j) /\ deduplicate_by = 3) =>
        LET songs == Fetched(j)
            m == Marks(j)
            after == LocalsAfter(j)
        IN  \A k \in 1..Len(songs) :
                /\ EarlierIsrc(songs, k) =>
                      /\ m[k].duplicate
                      /\ m[k].axis = "isrc"
                      /\ after[k].is_song_duplicate
                      /\ after[k].names = NamesBefore(j, after, k)
                /\ (\A i \in 1..(k - 1) :
                       /\ ~SameIsrc(songs[i], songs[k])
                       /\ SameName(songs[i], songs[k]) => m[i].axis = "isrc")
                   => m[k].kept

\* an ISRC duplicate with a new name key, and a later song with that name key
\* and a new ISRC, which is kept
C14_Witness ==
    \E j \in Jobs :
        /\ Classified(j) /\ deduplicate_by = 3
        /\ LET songs == Fetched(j)
               m == Marks(j)
           IN  \E k \in 1..Len(songs) : \E n \in (k + 1)..Len(songs) :
                   /\ m[k].axis = "isrc"
                   /\ \A i \in 1..(k - 1) : ~SameName(songs[i], songs[k])
                   /\ SameName(songs[k], songs[n])
                   /\ ~EarlierIsrc(songs, n)
                   /\ m[n].kept

----------------------------------------------------------------------------
(* The duplicate sequence *)

\* C15: the duplicate sequence is the fetched songs at the positions marked
\* duplicate, in their order.  Each iteration appends its song once or not at
\* all, also when the song matches on both axes, and the first never appends:
\* a job that fetched songs keeps at least one and has fewer duplicates than
\* songs.
C15_DuplicatesSubsequence ==
    \A j \in Jobs : Classified(j) =>
        LET songs == Fetched(j)
            m == Marks(j)
            after == LocalsAfter(j)
        IN  /\ job[j].duplicates = Marked(m, songs)
            /\ \A k \in 1..Len(songs) :
                  /\ m[k].duplicate # m[k].kept
                  /\ Len(after[k].duplicates) =
                        (IF k = 1 THEN 0 ELSE Len(after[k - 1].duplicates))
                        + (IF m[k].duplicate THEN 1 ELSE 0)
            /\ m[1].kept
            /\ Len(job[j].duplicates) < Len(songs)
            /\ Len(job[j].log) = Len(job[j].duplicates)

\* a song that matches an earlier one on both axes under policy 3 is in the
\* duplicate sequence once, with a kept song after it
C15_Witness ==
    \E j \in Jobs :
        /\ Classified(j) /\ deduplicate_by = 3
        /\ LET songs == Fetched(j)
               m == Marks(j)
           IN  /\ Len(songs) = 3
               /\ EarlierIsrc(songs, 2) /\ EarlierName(songs, 2)
               /\ m[3].kept
               /\ job[j].duplicates = <<songs[2]>>

----------------------------------------------------------------------------
(* The kept songs *)

\* the songs at the positions marked kept, in order
RECURSIVE Kept(_, _)
Kept(marks, songs) ==
    IF songs = << >> THEN << >>
    ELSE IF Head(marks).kept THEN <<Head(songs)>> \o Kept(Tail(marks), Tail(songs))
    ELSE Kept(Tail(marks), Tail(songs))

\* C16: the kept songs are free of duplicates.  No two kept songs carry the
\* same ISRC when the ISRC axis is active, nor the same name key when the name
\* axis is active, and the loop run again over the kept songs, in their order
\* and under the same policy, appends nothing.
C16_KeptDuplicateFree ==
    \A j \in Jobs : Classified(j) =>
        LET songs == Fetched(j)
            m == Marks(j)
            kept == Kept(m, songs)
        IN  /\ \A i, k \in 1..Len(kept) : i < k =>
                  /\ IsrcActive => ~SameIsrc(kept[i], kept[k])
                  /\ NameActive => ~SameName(kept[i], kept[k])
            /\ Loop(Locals(j), kept, deduplicate_by).duplicates = << >>

\* a list with a duplicate and two kept songs that carry keys on the active axes
C16_Witness ==
    \E j \in Jobs :
        /\ Classified(j)
        /\ LET songs == Fetched(j)
               kept == Kept(Marks(j), songs)
           IN  /\ Len(kept) = 2
               /\ Len(songs) = 3
               /\ \A i \in 1..2 : Carries(kept[i], "ISRC") /\ Carries(kept[i], "ART_ID")
               /\ Loop(Locals(j), kept, deduplicate_by).duplicates = << >>

----------------------------------------------------------------------------
(* The removal request *)

\* "songs": [[int(song_id), 0] for song_id in song_ids]
DeleteSongs(song_ids) == [i \in 1..Len(song_ids) |-> <<song_ids[i], 0>>]

\* C17: the removal request names no kept song: no entry of the "songs" list
\* of a remove call carries the id of a song at a position marked kept, also
\* when the fetched list holds the same id at several positions.
C17_RemovalSparesKept ==
    \A j \in Jobs : \A c \in 1..Len(RemoveCalls(j)) :
        LET songs == Fetched(j)
            kept == Kept(Marks(j), songs)
            sent == DeleteSongs(RemoveCalls(j)[c].song_ids)
        IN  \A e \in 1..Len(sent) : \A i \in 1..Len(kept) :
                sent[e][1] # kept[i].SNG_ID

====
